---- MODULE Spec2Model ----
(***************************************************************************)
(* Phase controller of run-is.py: three generator handlers (on_exit,       *)
(* on_work_begin, on_work_end) registered per exit-event kind and driven   *)
(* by the simulator's run loop.  The handlers are translated from          *)
(* run-is.py; the run loop, the handler registry lookup, the processor     *)
(* switch, the statistics reset and the instruction budget live in the     *)
(* gem5 library and are modelled from spec.md sections 4.2 to 4.5.         *)
(***************************************************************************)
EXTENDS Integers, Sequences, FiniteSets, TLC

\* ---------------------------------------------------------------- bounds
\* Largest number of exit events the hardware model raises in one run.
MaxEvents == 5

\* Instructions one hardware thread retires in one modelled stretch of
\* detailed execution.
InstChunk == 5000000

\* ------------------------------------------------------------- constants
\* run-is.py:105  simulator.schedule_max_insts(10_000_000)
MaxInsts == 10000000

\* run-is.py:47 and 72  num_cores=4
NumCores == 4

\* The exit-event kinds the hardware model can raise (ExitEvent members).
ExitEvent == {"EXIT", "WORKBEGIN", "WORKEND", "CHECKPOINT", "MAX_INSTS"}

\* The two boards of run-is.py:85-86, named by their ISA.
ISA == {"X86", "ARM"}

NoEvent == "none"
NoExc   == "none"

\* Both boards built with TIMING as the starting core type.
StartingState_timing(i) == "Timing"

\* run-is.py:43-48 (KVM start core, switchable) and 70-74 (TIMING cores).
StartingState(i) == IF i = "X86" THEN "Functional" ELSE "Timing"

VARIABLES
  isa,          \* ISA of the board chosen at line 85/86
  outcome,      \* "constructed", "running", "halted" or the fatal condition
  pending,      \* exit event raised by the hardware model, not yet handled
  events,       \* exit events raised so far, in order
  gen,          \* resume point of each registered generator
  cursor,       \* number of steps each handler has completed
  decisions,    \* halt decisions returned by the handler steps, in order
  log,          \* notices and side effects applied, in order
  procState,    \* active processor representation
  statsResets,  \* number of m5.stats.reset() calls
  switchCalls,  \* number of processor.switch() calls
  budget,       \* armed per-thread instruction ceiling, 0 when none
  armCount,     \* number of schedule_max_insts calls
  resumes,      \* number of times the hardware model was (re)started
  insts         \* instructions each thread retired under the armed budget

vars == <<isa, outcome, pending, events, gen, cursor, decisions, log,
          procState, statsResets, switchCalls, budget, armCount, resumes,
          insts>>

Threads == 1..NumCores

\* The armed ceiling has been hit by some thread.
BudgetExpired == budget > 0 /\ \E t \in Threads : insts[t] >= budget

\* ------------------------------------------------- side-effect primitives
\* A context c carries the state a handler body reads and writes, and the
\* exception it has raised (NoExc while none).

Context == [log |-> log, procState |-> procState, statsResets |-> statsResets,
            switchCalls |-> switchCalls, budget |-> budget,
            armCount |-> armCount, exc |-> NoExc]

\* print(...)
Emit(c, notice) ==
  IF c.exc # NoExc THEN c ELSE [c EXCEPT !.log = Append(@, notice)]

\* m5.stats.reset()
stats_reset(c) ==
  IF c.exc # NoExc THEN c
  ELSE [c EXCEPT !.statsResets = @ + 1, !.log = Append(@, "stats.reset")]

\* A switch that toggles between the two representations.
switchToTiming_toggle(c) ==
  IF c.exc # NoExc THEN c
  ELSE [c EXCEPT !.procState = IF @ = "Functional" THEN "Timing"
                               ELSE "Functional",
                 !.switchCalls = @ + 1, !.log = Append(@, "switch")]

\* processor.switch(): ProcessorSwitchFacade.switchToTiming()
switchToTiming(c) ==
  IF c.exc # NoExc THEN c
  ELSE IF c.procState = "Functional"
       THEN [c EXCEPT !.procState = "Timing", !.switchCalls = @ + 1,
                      !.log = Append(@, "switch")]
       ELSE [c EXCEPT !.switchCalls = @ + 1, !.exc = "InvalidSwitch"]

\* simulator.schedule_max_insts(n): InstructionBudget.arm
schedule_max_insts(c, n) ==
  IF c.exc # NoExc THEN c
  ELSE [c EXCEPT !.budget = n, !.armCount = @ + 1,
                 !.log = Append(@, "schedule_max_insts")]

\* --------------------------------------------------------- the generators
\* One call of next() on a generator: run from the resume point pc to the
\* next yield ("yield", with the yielded value), to the end of the body
\* ("stop": StopIteration) or to an exception raised by the body ("raise").

Yield(at, v, c) ==
  IF c.exc # NoExc
  THEN [pc |-> "end", status |-> "raise", val |-> FALSE, c |-> c]
  ELSE [pc |-> at, status |-> "yield", val |-> v, c |-> c]

StopIteration(c) == [pc |-> "end", status |-> "stop", val |-> FALSE, c |-> c]

\* on_exit with the two notices printed in the wrong order.
on_exit_swapped(pc, c) ==
  CASE pc = "start" ->
         IF isa = "ARM"
         THEN Yield("L93", TRUE, c)
         ELSE Yield("L95", FALSE,
                    Emit(c, "Exiting the simulation for systemd complete"))
    [] pc = "L93" ->
         Yield("L95", FALSE,
               Emit(c, "Exiting the simulation for systemd complete"))
    [] pc = "L95" ->
         Yield("L97", FALSE, Emit(c, "Exiting the simulation for kernel boot"))
    [] OTHER -> StopIteration(c)

\* on_exit with "return True" instead of "yield True" in the ARM branch
\* (the generator ends without yielding).
on_exit_return(pc, c) ==
  CASE pc = "start" ->
         IF isa = "ARM"
         THEN StopIteration(c)
         ELSE Yield("L95", FALSE,
                    Emit(c, "Exiting the simulation for kernel boot"))
    [] pc = "L93" ->
         Yield("L95", FALSE, Emit(c, "Exiting the simulation for kernel boot"))
    [] pc = "L95" ->
         Yield("L97", FALSE,
               Emit(c, "Exiting the simulation for systemd complete"))
    [] OTHER -> StopIteration(c)

\* on_exit ending in a loop that keeps yielding False after the two steps.
on_exit_loop(pc, c) ==
  CASE pc = "start" ->
         IF isa = "ARM"
         THEN Yield("L93", TRUE, c)
         ELSE Yield("L95", FALSE,
                    Emit(c, "Exiting the simulation for kernel boot"))
    [] pc = "L93" ->
         Yield("L95", FALSE, Emit(c, "Exiting the simulation for kernel boot"))
    [] pc = "L95" ->
         Yield("L97", FALSE,
               Emit(c, "Exiting the simulation for systemd complete"))
    [] pc = "L97" -> Yield("L97", FALSE, c)
    [] OTHER -> StopIteration(c)

\* on_exit with the ISA test inverted (!= instead of ==).
on_exit_inverted(pc, c) ==
  CASE pc = "start" ->
         IF isa # "ARM"
         THEN Yield("L93", TRUE, c)
         ELSE Yield("L95", FALSE,
                    Emit(c, "Exiting the simulation for kernel boot"))
    [] pc = "L93" ->
         Yield("L95", FALSE, Emit(c, "Exiting the simulation for kernel boot"))
    [] pc = "L95" ->
         Yield("L97", FALSE,
               Emit(c, "Exiting the simulation for systemd complete"))
    [] OTHER -> StopIteration(c)

\* on_exit as a handler that starts over at every firing instead of
\* resuming after its last yield.
on_exit_restart(pc, c) ==
  IF isa = "ARM"
  THEN Yield("L93", TRUE, c)
  ELSE Yield("L95", FALSE, Emit(c, "Exiting the simulation for kernel boot"))

\* on_exit with the ISA test placed after the first print.
on_exit_late_test(pc, c) ==
  CASE pc = "start" ->
         IF isa = "ARM"
         THEN Yield("L93", TRUE,
                    Emit(c, "Exiting the simulation for kernel boot"))
         ELSE Yield("L95", FALSE,
                    Emit(c, "Exiting the simulation for kernel boot"))
    [] pc = "L93" ->
         Yield("L95", FALSE, Emit(c, "Exiting the simulation for kernel boot"))
    [] pc = "L95" ->
         Yield("L97", FALSE,
               Emit(c, "Exiting the simulation for systemd complete"))
    [] OTHER -> StopIteration(c)

\* on_exit yielding False in the ARM branch.
on_exit_arm_continue(pc, c) ==
  CASE pc = "start" ->
         IF isa = "ARM"
         THEN Yield("L93", FALSE, c)
         ELSE Yield("L95", FALSE,
                    Emit(c, "Exiting the simulation for kernel boot"))
    [] pc = "L93" ->
         Yield("L95", FALSE, Emit(c, "Exiting the simulation for kernel boot"))
    [] pc = "L95" ->
         Yield("L97", FALSE,
               Emit(c, "Exiting the simulation for systemd complete"))
    [] OTHER -> StopIteration(c)

on_exit(pc, c) ==
  CASE pc = "start" ->
         IF isa = "ARM"
         THEN Yield("L93", TRUE, c)
         ELSE Yield("L95", FALSE,
                    Emit(c, "Exiting the simulation for kernel boot"))
    [] pc = "L93" ->
         Yield("L95", FALSE, Emit(c, "Exiting the simulation for kernel boot"))
    [] pc = "L95" ->
         Yield("L97", FALSE,
               Emit(c, "Exiting the simulation for systemd complete"))
    [] OTHER -> StopIteration(c)

\* on_work_begin without the m5.stats.reset() call.
on_work_begin_no_reset(pc, c) ==
  CASE pc = "start" ->
         Yield("L106", FALSE,
           schedule_max_insts(
             Emit(
               switchToTiming(
                 Emit(c, "Work begin. Switching to detailed CPU")),
               "Running for 10,000,000 instructions on any thread"),
             MaxInsts))
    [] OTHER -> StopIteration(c)

\* on_work_begin calling processor.switch() before m5.stats.reset().
on_work_begin_switch_first(pc, c) ==
  CASE pc = "start" ->
         Yield("L106", FALSE,
           schedule_max_insts(
             Emit(
               stats_reset(
                 switchToTiming(
                   Emit(c, "Work begin. Switching to detailed CPU"))),
               "Running for 10,000,000 instructions on any thread"),
             MaxInsts))
    [] OTHER -> StopIteration(c)

\* on_work_begin with its body inside "while True:".
on_work_begin_loop(pc, c) ==
  CASE pc \in {"start", "L106"} ->
         Yield("L106", FALSE,
           schedule_max_insts(
             Emit(
               switchToTiming(
                 stats_reset(
                   Emit(c, "Work begin. Switching to detailed CPU"))),
               "Running for 10,000,000 instructions on any thread"),
             MaxInsts))
    [] OTHER -> StopIteration(c)

\* on_work_begin without the simulator.schedule_max_insts() call.
on_work_begin_no_budget(pc, c) ==
  CASE pc = "start" ->
         Yield("L106", FALSE,
           Emit(
             switchToTiming(
               stats_reset(
                 Emit(c, "Work begin. Switching to detailed CPU"))),
             "Running for 10,000,000 instructions on any thread"))
    [] OTHER -> StopIteration(c)

\* on_work_begin without the processor.switch() call.
on_work_begin_no_switch(pc, c) ==
  CASE pc = "start" ->
         Yield("L106", FALSE,
           schedule_max_insts(
             Emit(
               stats_reset(
                 Emit(c, "Work begin. Switching to detailed CPU")),
               "Running for 10,000,000 instructions on any thread"),
             MaxInsts))
    [] OTHER -> StopIteration(c)

on_work_begin(pc, c) ==
  CASE pc = "start" ->
         Yield("L106", FALSE,
           schedule_max_insts(
             Emit(
               switchToTiming(
                 stats_reset(
                   Emit(c, "Work begin. Switching to detailed CPU"))),
               "Running for 10,000,000 instructions on any thread"),
             MaxInsts))
    [] OTHER -> StopIteration(c)

\* on_work_end yielding False (the run continues after "Work end").
on_work_end_continue(pc, c) ==
  CASE pc = "start" -> Yield("L111", FALSE, Emit(c, "Work end"))
    [] OTHER -> StopIteration(c)

\* on_work_end that also calls processor.switch().
on_work_end_switch(pc, c) ==
  CASE pc = "start" ->
         Yield("L111", TRUE, switchToTiming(Emit(c, "Work end")))
    [] OTHER -> StopIteration(c)

on_work_end(pc, c) ==
  CASE pc = "start" -> Yield("L111", TRUE, Emit(c, "Work end"))
    [] OTHER -> StopIteration(c)

\* ------------------------------------------------------------ the registry
\* Simulator(on_exit_event={...}): the handler registered for each kind.
\* The registry with on_work_end also registered for ExitEvent.CHECKPOINT.
on_exit_event_checkpoint ==
  [k \in {"EXIT", "WORKBEGIN", "WORKEND", "CHECKPOINT"} |->
     CASE k = "EXIT" -> "on_exit"
       [] k = "WORKBEGIN" -> "on_work_begin"
       [] k \in {"WORKEND", "CHECKPOINT"} -> "on_work_end"]

\* The registry with the WORKBEGIN and WORKEND handlers exchanged.
on_exit_event_exchanged ==
  [k \in {"EXIT", "WORKBEGIN", "WORKEND"} |->
     CASE k = "EXIT" -> "on_exit"
       [] k = "WORKBEGIN" -> "on_work_end"
       [] k = "WORKEND" -> "on_work_begin"]

on_exit_event ==
  [k \in {"EXIT", "WORKBEGIN", "WORKEND"} |->
     CASE k = "EXIT" -> "on_exit"
       [] k = "WORKBEGIN" -> "on_work_begin"
       [] k = "WORKEND" -> "on_work_end"]

\* next(on_exit_event[kind])
advance(kind, pc, c) ==
  CASE on_exit_event[kind] = "on_exit" -> on_exit(pc, c)
    [] on_exit_event[kind] = "on_work_begin" -> on_work_begin(pc, c)
    [] on_exit_event[kind] = "on_work_end" -> on_work_end(pc, c)

\* ------------------------------------------------------------------- Init
Init ==
  /\ isa \in ISA
  /\ outcome = "constructed"
  /\ pending = NoEvent
  /\ events = <<>>
  /\ gen = [k \in DOMAIN on_exit_event |-> "start"]
  /\ cursor = [k \in DOMAIN on_exit_event |-> 0]
  /\ decisions = <<>>
  /\ log = <<>>
  /\ procState = StartingState(isa)
  /\ statsResets = 0
  /\ switchCalls = 0
  /\ budget = 0
  /\ armCount = 0
  /\ resumes = 0
  /\ insts = [t \in Threads |-> 0]

\* ---------------------------------------------------------------- actions
\* simulator.run(): enter the loop and start the hardware model.
Run ==
  /\ outcome = "constructed"
  /\ outcome' = "running"
  /\ resumes' = resumes + 1
  /\ UNCHANGED <<isa, pending, events, gen, cursor, decisions, log, procState,
                 statsResets, switchCalls, budget, armCount, insts>>

\* The hardware model executes: thread t retires a stretch of instructions
\* under the armed budget.
Retire(t) ==
  /\ outcome = "running"
  /\ pending = NoEvent
  /\ budget > 0
  /\ ~BudgetExpired
  /\ insts' = [insts EXCEPT ![t] = @ + InstChunk]
  /\ UNCHANGED <<isa, outcome, pending, events, gen, cursor, decisions, log,
                 procState, statsResets, switchCalls, budget, armCount,
                 resumes>>

\* The hardware model runs until it raises an exit event of kind k.  The
\* instruction-count expiry is raised when, and as soon as, a thread has hit
\* the armed ceiling; the other kinds come from the workload, which raises
\* at most MaxEvents of them.
Raise(k) ==
  /\ outcome = "running"
  /\ pending = NoEvent
  /\ k # "MAX_INSTS" => Len(events) < MaxEvents
  /\ (k = "MAX_INSTS") = BudgetExpired
  /\ pending' = k
  /\ events' = Append(events, k)
  /\ UNCHANGED <<isa, outcome, gen, cursor, decisions, log, procState,
                 statsResets, switchCalls, budget, armCount, resumes, insts>>

\* One iteration of the run loop on the pending event: look the handler up,
\* advance it one step, apply its effects, then halt, fail or resume.
Dispatch ==
  /\ outcome = "running"
  /\ pending # NoEvent
  /\ pending' = NoEvent
  /\ UNCHANGED <<isa, events, insts>>
  /\ IF pending \notin DOMAIN on_exit_event
     THEN /\ outcome' = "UnknownEvent"
          /\ UNCHANGED <<gen, cursor, decisions, log, procState, statsResets,
                         switchCalls, budget, armCount, resumes>>
     ELSE LET r == advance(pending, gen[pending], Context) IN
          /\ gen' = [gen EXCEPT ![pending] = r.pc]
          /\ log' = r.c.log
          /\ procState' = r.c.procState
          /\ statsResets' = r.c.statsResets
          /\ switchCalls' = r.c.switchCalls
          /\ budget' = r.c.budget
          /\ armCount' = r.c.armCount
          /\ CASE r.status = "raise" ->
                    /\ outcome' = r.c.exc
                    /\ UNCHANGED <<cursor, decisions, resumes>>
               [] r.status = "stop" ->
                    /\ outcome' = "SequenceExhausted"
                    /\ UNCHANGED <<cursor, decisions, resumes>>
               [] r.status = "yield" ->
                    /\ cursor' = [cursor EXCEPT ![pending] = @ + 1]
                    /\ decisions' = Append(decisions, r.val)
                    /\ IF r.val
                       THEN outcome' = "halted" /\ UNCHANGED resumes
                       ELSE outcome' = "running" /\ resumes' = resumes + 1

Next ==
  \/ Run
  \/ \E t \in Threads : Retire(t)
  \/ \E k \in ExitEvent : Raise(k)
  \/ Dispatch

Spec == Init /\ [][Next]_vars

\* The hardware model keeps executing while it is running and returns
\* control at an exit point; the run loop then handles the event at once.
FairSpec ==
  /\ Spec
  /\ \A t \in Threads : WF_vars(Retire(t))
  /\ WF_vars(Raise("MAX_INSTS"))
  /\ WF_vars(Dispatch)

\* The switch primitive called directly between two events, outside any
\* handler (a handler-independent use of the facade); a failed call is
\* fatal for the run.
SwitchCall ==
  /\ outcome = "running"
  /\ pending = NoEvent
  /\ LET c == switchToTiming(Context) IN
       /\ procState' = c.procState
       /\ switchCalls' = c.switchCalls
       /\ log' = c.log
       /\ outcome' = IF c.exc # NoExc THEN c.exc ELSE outcome
  /\ UNCHANGED <<isa, pending, events, gen, cursor, decisions, statsResets,
                 budget, armCount, resumes, insts>>

FacadeNext ==
  \/ Next
  \/ SwitchCall

FacadeSpec == Init /\ [][FacadeNext]_vars

\* The EXIT handler selected once at construction from the ISA: a sequence
\* of steps, each a list of notices and a halt decision.
PreSelectedExit(i) ==
  IF i = "ARM"
  THEN <<[notices |-> <<>>, halt |-> TRUE]>>
  ELSE <<[notices |-> <<"Exiting the simulation for kernel boot">>,
          halt |-> FALSE],
         [notices |-> <<"Exiting the simulation for systemd complete">>,
          halt |-> FALSE]>>

\* advance() of the pre-selected handler with n steps already completed.
PreSelectedAdvance(i, n, c) ==
  IF n >= Len(PreSelectedExit(i))
  THEN [status |-> "stop", val |-> FALSE, c |-> c]
  ELSE [status |-> "yield", val |-> PreSelectedExit(i)[n + 1].halt,
        c |-> [c EXCEPT !.log = @ \o PreSelectedExit(i)[n + 1].notices]]

\* ---------------------------------------------------------------- helpers
Count(s, k) == Cardinality({i \in 1..Len(s) : s[i] = k})

IsPrefix(p, s) == Len(p) <= Len(s) /\ SubSeq(s, 1, Len(p)) = p

\* This step is the run loop handling a pending event of kind k.
Handles(k) == outcome = "running" /\ pending = k /\ pending' = NoEvent

\* Index of the first occurrence of entry e in the log, 0 when absent.
FirstIndex(e) ==
  IF \E i \in 1..Len(log) : log[i] = e
  THEN CHOOSE i \in 1..Len(log) :
         log[i] = e /\ \A j \in 1..(i - 1) : log[j] # e
  ELSE 0

BootNotice == "Exiting the simulation for kernel boot"
InitNotice == "Exiting the simulation for systemd complete"

\* -------------------------------------------------------------------- C1
ScenarioA == <<"EXIT", "EXIT", "WORKBEGIN", "WORKEND">>

ScenarioALog ==
  <<BootNotice, InitNotice,
    "Work begin. Switching to detailed CPU", "stats.reset", "switch",
    "Running for 10,000,000 instructions on any thread", "schedule_max_insts",
    "Work end">>

\* Length of the log after the first n events of scenario A were handled.
ScenarioALogLen(n) == CASE n = 0 -> 0 [] n = 1 -> 1 [] n = 2 -> 2
                        [] n = 3 -> 7 [] n = 4 -> 8

\* C1: on the x86 board, once the events EXIT, EXIT, WORKBEGIN, WORKEND (or
\* a prefix of them) have been raised and handled, the reactions were
\* applied in that order, the first three decisions were "continue" and the
\* fourth "halt", the processor was switched Functional->Timing exactly once
\* (by WORKBEGIN), statistics were reset exactly once, and the run has
\* terminated normally exactly when WORKEND was handled.
C1_ScenarioA ==
  (isa = "X86" /\ outcome # "constructed" /\ pending = NoEvent
     /\ IsPrefix(events, ScenarioA))
  => LET n == Len(events) IN
     /\ log = SubSeq(ScenarioALog, 1, ScenarioALogLen(n))
     /\ decisions = SubSeq(<<FALSE, FALSE, FALSE, TRUE>>, 1, n)
     /\ outcome = IF n = 4 THEN "halted" ELSE "running"
     /\ resumes = IF n = 4 THEN 4 ELSE n + 1
     /\ switchCalls = IF n >= 3 THEN 1 ELSE 0
     /\ procState = IF n >= 3 THEN "Timing" ELSE "Functional"
     /\ statsResets = IF n >= 3 THEN 1 ELSE 0

C1_Witness ==
  /\ isa = "X86" /\ events = ScenarioA /\ pending = NoEvent
  /\ outcome = "halted" /\ switchCalls = 1 /\ statsResets = 1

\* -------------------------------------------------------------------- C2
\* C2: on the x86 board the first handled EXIT returns halt=false and its
\* only effect is one "kernel boot" notice; the second handled EXIT returns
\* halt=false and its only effect is one "systemd complete" notice; the run
\* continues; whatever other events were handled before or between.
C2_ExitSteps ==
  [][(isa = "X86" /\ Handles("EXIT") /\ Count(events, "EXIT") \in {1, 2})
     => /\ decisions' = Append(decisions, FALSE)
        /\ log' = Append(log, IF Count(events, "EXIT") = 1
                              THEN BootNotice ELSE InitNotice)
        /\ outcome' = "running"
        /\ UNCHANGED <<procState, statsResets, switchCalls, budget, armCount>>
    ]_vars

\* Both EXIT steps have run, with WORKBEGIN handled between them.
C2_Witness ==
  /\ isa = "X86" /\ events = <<"EXIT", "WORKBEGIN", "EXIT">>
  /\ pending = NoEvent /\ outcome = "running"
  /\ decisions = <<FALSE, FALSE, FALSE>>
  /\ log[1] = BootNotice /\ log[Len(log)] = InitNotice
  /\ Count(log, BootNotice) = 1 /\ Count(log, InitNotice) = 1

\* -------------------------------------------------------------------- C3
\* C3: on the ARM board the first handled EXIT returns halt=true, emits no
\* notice, applies no side effect, and the run loop stops on it without
\* resuming the hardware model.
C3_ArmExitHalts ==
  [][(isa = "ARM" /\ Handles("EXIT") /\ Count(events, "EXIT") = 1)
     => /\ decisions' = Append(decisions, TRUE)
        /\ outcome' = "halted"
        /\ UNCHANGED <<log, procState, statsResets, switchCalls, budget,
                       armCount, resumes>>
    ]_vars

C3_Witness ==
  /\ isa = "ARM" /\ events = <<"EXIT">> /\ pending = NoEvent
  /\ outcome = "halted" /\ decisions = <<TRUE>> /\ log = <<>>
  /\ gen["EXIT"] = "L93"

\* -------------------------------------------------------------------- C4
\* C4: the first handled WORKEND returns halt=true; a handler step that
\* returns halt=true makes the run loop return normally without resuming
\* the hardware model; and from a normally terminated run nothing changes
\* any more: no cursor, no side effect, no resume.
C4_HaltStops ==
  [][/\ (Handles("WORKEND") /\ Count(events, "WORKEND") = 1)
          => decisions' = Append(decisions, TRUE)
     /\ (Len(decisions') > Len(decisions) /\ decisions'[Len(decisions')])
          => (outcome' = "halted" /\ resumes' = resumes)
     /\ outcome = "halted" => UNCHANGED vars
    ]_vars

\* WORKEND has halted a run in which the hardware model had been resumed
\* after earlier events.
C4_Witness ==
  /\ outcome = "halted" /\ pending = NoEvent
  /\ Len(events) >= 2 /\ events[Len(events)] = "WORKEND"
  /\ decisions[Len(decisions)] /\ resumes = Len(events)

\* -------------------------------------------------------------------- C5
\* A WORKBEGIN event has been handled (its generator has been started).
WorkBeginStarted == gen["WORKBEGIN"] # "start"

\* Entry e of the log has an earlier entry d.
Preceded(e, d) ==
  \A i \in 1..Len(log) : log[i] = e => \E j \in 1..(i - 1) : log[j] = d

OrderedInWorkBegin ==
  /\ statsResets = Count(log, "stats.reset")
  /\ Preceded("switch", "stats.reset")
  /\ Preceded("schedule_max_insts", "switch")
  /\ Preceded("schedule_max_insts", "stats.reset")
  /\ (budget > 0 \/ armCount > 0 \/ switchCalls > 0) => statsResets >= 1

\* C5 as stated: a run that has terminated normally has reset the statistics exactly once,
\* and reset, switch and arming happen in that order.
C5_ResetExactlyOnceEveryRun ==
  /\ outcome = "halted" => statsResets = 1
  /\ OrderedInWorkBegin

\* C5 amended: the statistics are reset at most once in a run, and exactly
\* once as soon as a WORKBEGIN event has been handled (never otherwise);
\* the reset precedes the completed switch, which precedes the arming of
\* the budget; no switch call and no armed budget without a reset before.
C5_ResetOnceOrdered ==
  /\ statsResets <= 1
  /\ (statsResets = 1) <=> WorkBeginStarted
  /\ OrderedInWorkBegin

C5_Witness ==
  /\ WorkBeginStarted /\ statsResets = 1 /\ budget = MaxInsts
  /\ procState = "Timing" /\ switchCalls = 1
  /\ 0 < FirstIndex("stats.reset")
  /\ FirstIndex("stats.reset") < FirstIndex("switch")
  /\ FirstIndex("switch") < FirstIndex("schedule_max_insts")

\* -------------------------------------------------------------------- C6
\* C6: the WORKBEGIN handler completes at most one step; handling a second
\* WORKBEGIN ends the run with SequenceExhausted and resets no statistics,
\* calls no switch and arms no budget.
C6_SecondWorkBegin ==
  [][/\ cursor'["WORKBEGIN"] <= 1
     /\ (Handles("WORKBEGIN") /\ Count(events, "WORKBEGIN") >= 2)
          => /\ outcome' = "SequenceExhausted"
             /\ UNCHANGED <<log, procState, statsResets, switchCalls, budget,
                            armCount, cursor, decisions, resumes>>
    ]_vars

C6_Witness ==
  /\ Count(events, "WORKBEGIN") = 2 /\ pending = NoEvent
  /\ outcome = "SequenceExhausted"
  /\ statsResets = 1 /\ switchCalls = 1 /\ armCount = 1

\* -------------------------------------------------------------------- C7
\* C7: on the x86 board the EXIT handler completes at most two steps;
\* handling a third EXIT ends the run with SequenceExhausted: no halt
\* decision is returned, no notice is emitted, the model is not resumed.
C7_ThirdExit ==
  [][isa = "X86" =>
       /\ cursor'["EXIT"] <= 2
       /\ (Handles("EXIT") /\ Count(events, "EXIT") >= 3)
            => /\ outcome' = "SequenceExhausted"
               /\ UNCHANGED <<log, procState, statsResets, switchCalls,
                              budget, armCount, cursor, decisions, resumes>>
    ]_vars

C7_Witness ==
  /\ isa = "X86" /\ Count(events, "EXIT") = 3 /\ pending = NoEvent
  /\ outcome = "SequenceExhausted"
  /\ Count(log, BootNotice) = 1 /\ Count(log, InitNotice) = 1

\* -------------------------------------------------------------------- C8
\* C8: handling an event of a kind other than EXIT, WORKBEGIN, WORKEND ends
\* the run with UnknownEvent, advances no generator or cursor, applies no
\* side effect and does not resume the model; nothing changes afterwards.
C8_UnknownEvent ==
  [][/\ (outcome = "running" /\ pending' = NoEvent
           /\ pending \notin {NoEvent, "EXIT", "WORKBEGIN", "WORKEND"})
          => /\ outcome' = "UnknownEvent"
             /\ UNCHANGED <<gen, cursor, decisions, log, procState,
                            statsResets, switchCalls, budget, armCount,
                            resumes>>
     /\ outcome = "UnknownEvent" => UNCHANGED vars
    ]_vars

\* An unregistered kind raised after handlers had already applied effects.
C8_Witness ==
  /\ outcome = "UnknownEvent" /\ pending = NoEvent
  /\ events = <<"EXIT", "WORKBEGIN", "CHECKPOINT">>
  /\ statsResets = 1 /\ cursor = [k \in DOMAIN cursor |->
                                    IF k = "WORKEND" THEN 0 ELSE 1]

\* -------------------------------------------------------------------- C9
\* C9 (checked under FacadeSpec, where the switch is also called outside
\* the WORKBEGIN step): a call of the switch with the processor already in
\* Timing, and so every second call within a run, raises InvalidSwitch and
\* leaves the processor in Timing.
C9_InvalidSwitch ==
  [][(switchCalls' = switchCalls + 1
        /\ (procState = "Timing" \/ switchCalls >= 1))
     => /\ procState = "Timing"
        /\ outcome' = "InvalidSwitch"
        /\ procState' = "Timing"
    ]_vars

\* The second switch call of a run on the x86 board has failed.
C9_Witness ==
  /\ isa = "X86" /\ switchCalls = 2 /\ outcome = "InvalidSwitch"
  /\ procState = "Timing" /\ Count(log, "switch") = 1

\* ------------------------------------------------------------------- C10
\* C10: on the ARM board, when WORKEND is the only event raised, handling it
\* terminates the run normally and the WORKBEGIN step has not executed: its
\* generator is unstarted, statistics are not reset, the switch was not
\* called, the processor state is the starting one and no budget is armed.
C10_ScenarioB ==
  (isa = "ARM" /\ events = <<"WORKEND">> /\ pending = NoEvent)
  => /\ outcome = "halted"
     /\ decisions = <<TRUE>>
     /\ log = <<"Work end">>
     /\ gen["WORKBEGIN"] = "start" /\ cursor["WORKBEGIN"] = 0
     /\ gen["EXIT"] = "start" /\ cursor["EXIT"] = 0
     /\ statsResets = 0 /\ switchCalls = 0
     /\ procState = StartingState(isa)
     /\ budget = 0 /\ armCount = 0

C10_Witness ==
  /\ isa = "ARM" /\ events = <<"WORKEND">> /\ pending = NoEvent
  /\ outcome = "halted" /\ cursor["WORKEND"] = 1 /\ statsResets = 0

\* ------------------------------------------------------------------- C11
\* C11 (under FairSpec): a completed WORKBEGIN step leaves a budget of
\* 10,000,000 instructions per thread armed; once a thread has hit it the
\* only event the model raises is the expiry, which goes through the run
\* loop like any exit event and ends the run without resuming the model or
\* applying an effect; so an armed budget always leads to the end of the
\* run, whether or not WORKEND is raised.
C11_BudgetBoundsRun ==
  /\ [](cursor["WORKBEGIN"] = 1 => budget = 10000000)
  /\ [][/\ (BudgetExpired /\ events' # events)
             => (pending' = "MAX_INSTS" /\ events' = Append(events, "MAX_INSTS"))
        /\ Handles("MAX_INSTS")
             => /\ BudgetExpired
                /\ outcome' \notin {"constructed", "running"}
                /\ UNCHANGED <<log, procState, statsResets, switchCalls,
                               budget, armCount, resumes, insts>>
       ]_vars
  /\ (budget > 0) ~> (outcome # "running")

\* The run has ended on the expiry of the budget, WORKEND never raised.
C11_Witness ==
  /\ BudgetExpired /\ pending = NoEvent /\ outcome # "running"
  /\ events[Len(events)] = "MAX_INSTS" /\ Count(events, "WORKEND") = 0
  /\ \E t \in Threads : insts[t] = 0

\* ------------------------------------------------------------------- C12
\* C12: on the x86 board a run that has terminated normally handled a
\* WORKEND last, and handling an EXIT or a WORKBEGIN never returns
\* halt=true nor terminates the run normally.
C12_OnlyWorkEndHalts ==
  [][isa = "X86" =>
       /\ outcome' = "halted" => events'[Len(events')] = "WORKEND"
       /\ (Handles("EXIT") \/ Handles("WORKBEGIN"))
            => /\ outcome' # "halted"
               /\ \/ decisions' = decisions
                  \/ decisions' = Append(decisions, FALSE)
    ]_vars

\* A normally terminated x86 run in which both EXIT and WORKBEGIN fired.
C12_Witness ==
  /\ isa = "X86" /\ outcome = "halted"
  /\ events = <<"WORKBEGIN", "EXIT", "WORKEND">>
  /\ decisions = <<FALSE, FALSE, TRUE>>

\* ------------------------------------------------------------------- C13
\* C13: the processor state changes only from Functional to Timing, only
\* while a WORKBEGIN event is handled, and at most once in a run; handling
\* EXIT or WORKEND (or anything else) leaves it unchanged.
C13_SwitchOnce ==
  [][/\ procState' # procState
          => /\ procState = "Functional" /\ procState' = "Timing"
             /\ Handles("WORKBEGIN")
             /\ Count(log, "switch") = 0
     /\ procState = "Timing" => procState' = "Timing"
     /\ (Handles("EXIT") \/ Handles("WORKEND")) => procState' = procState
    ]_vars

\* EXIT and WORKEND were handled after the switch, the state still Timing.
C13_Witness ==
  /\ isa = "X86" /\ procState = "Timing" /\ outcome = "halted"
  /\ events = <<"WORKBEGIN", "EXIT", "EXIT", "WORKEND">>
  /\ Count(log, "switch") = 1 /\ switchCalls = 1

\* ------------------------------------------------------------------- C14
\* Position of a resume point within its generator body.
Rank(pc) ==
  CASE pc = "start" -> 0
    [] pc \in {"L93", "L106", "L111"} -> 1
    [] pc = "L95" -> 2
    [] pc = "L97" -> 3
    [] pc = "end" -> 4

Registered == DOMAIN cursor

\* C14 as stated, on the x86 board of run-is.py:86: every handled event of a
\* registered kind advances that kind's cursor by exactly one and leaves the
\* other cursors unchanged.
C14_EveryFiringAdvances ==
  [][\A k \in Registered :
       (isa = "X86" /\ Handles(k)) => cursor' = [cursor EXCEPT ![k] = @ + 1]
    ]_vars

\* C14 amended: a handled event that returns a halt decision advances its
\* kind's cursor by exactly one step; one that ends the run with a fatal
\* condition completes no step; in both cases the generator of the kind
\* moves forward from where its own last firing left it and the cursors and
\* generators of the other kinds are unchanged; no cursor or resume point
\* ever moves backwards, and nothing but handling an event moves them.
C14_CursorFrame ==
  [][/\ \A k \in Registered :
          /\ cursor'[k] >= cursor[k]
          /\ Rank(gen'[k]) >= Rank(gen[k])
          /\ Handles(k) =>
               /\ \A j \in Registered \ {k} :
                    cursor'[j] = cursor[j] /\ gen'[j] = gen[j]
               /\ Rank(gen'[k]) > Rank(gen[k])
               /\ IF Len(decisions') > Len(decisions)
                  THEN cursor'[k] = cursor[k] + 1
                  ELSE /\ cursor'[k] = cursor[k]
                       /\ outcome' \in {"SequenceExhausted", "InvalidSwitch"}
     /\ (\A k \in Registered : ~Handles(k)) => UNCHANGED <<gen, cursor>>
    ]_vars

\* The second EXIT step has run after a WORKBEGIN fired in between.
C14_Witness ==
  /\ isa = "X86" /\ pending = NoEvent
  /\ events = <<"EXIT", "WORKBEGIN", "EXIT">>
  /\ cursor["EXIT"] = 2 /\ cursor["WORKBEGIN"] = 1 /\ cursor["WORKEND"] = 0
  /\ gen["EXIT"] = "L97" /\ gen["WORKBEGIN"] = "L106"
  /\ gen["WORKEND"] = "start"

\* ------------------------------------------------------------------- C15
\* C15: whenever a budget is armed the processor is in Timing and the limit
\* is 10,000,000; the budget is armed at most once, and only after the
\* switch to Timing has completed.
C15_ArmedInTiming ==
  /\ budget > 0 => (procState = "Timing" /\ budget = 10000000)
  /\ armCount <= 1
  /\ (armCount = 1) <=> (budget > 0)
  /\ Count(log, "schedule_max_insts") = armCount
  /\ Preceded("schedule_max_insts", "switch")

\* The armed budget is in force while threads retire instructions.
C15_Witness ==
  /\ budget = 10000000 /\ armCount = 1 /\ procState = "Timing"
  /\ outcome = "running" /\ \E t \in Threads : insts[t] > 0

\* ------------------------------------------------------------------- C16
\* C16: at every handled EXIT, whatever the ISA and the events before it,
\* the source's on_exit and the handler pre-selected at construction (at
\* the same number of completed steps) emit the same notices, return the
\* same halt decision or both find no step left, and so give the run the
\* same outcome; neither has another effect.
C16_PreSelectedEquivalent ==
  [][Handles("EXIT") =>
       LET p == PreSelectedAdvance(isa, cursor["EXIT"], Context) IN
       /\ log' = p.c.log
       /\ decisions' = IF p.status = "yield"
                       THEN Append(decisions, p.val) ELSE decisions
       /\ outcome' = IF p.status = "stop" THEN "SequenceExhausted"
                     ELSE IF p.val THEN "halted" ELSE "running"
       /\ UNCHANGED <<procState, statsResets, switchCalls, budget, armCount>>
    ]_vars

\* The ARM run has ended on its first EXIT: the pre-selected handler has no
\* step left while the source's generator is suspended before two more.
C16_Witness ==
  /\ isa = "ARM" /\ outcome = "halted" /\ pending = NoEvent
  /\ cursor["EXIT"] = Len(PreSelectedExit(isa))
  /\ Rank(gen["EXIT"]) < Rank("L95")

\* ------------------------------------------------------------------- C17
\* C17: on the x86 board the switch is called at most once in a run, only
\* by the first handled WORKBEGIN, and InvalidSwitch never occurs; a second
\* (or later) WORKBEGIN ends the run with SequenceExhausted without calling
\* the switch.
C17_NoInvalidSwitch ==
  [][isa = "X86" =>
       /\ switchCalls' <= 1
       /\ outcome' # "InvalidSwitch"
       /\ switchCalls' # switchCalls
            => (Handles("WORKBEGIN") /\ Count(events, "WORKBEGIN") = 1)
       /\ (Handles("WORKBEGIN") /\ Count(events, "WORKBEGIN") >= 2)
            => (outcome' = "SequenceExhausted" /\ switchCalls' = switchCalls)
    ]_vars

\* A second WORKBEGIN, after an EXIT in between, has ended the x86 run.
C17_Witness ==
  /\ isa = "X86" /\ events = <<"WORKBEGIN", "EXIT", "WORKBEGIN">>
  /\ outcome = "SequenceExhausted" /\ switchCalls = 1
  /\ procState = "Timing"

\* ------------------------------------------------------------------- C18
\* C18: on the ARM board no run emits the kernel-boot or the
\* systemd-complete notice: the EXIT generator never gets past its halting
\* first yield, because the run has ended when it is suspended there.
C18_ArmNoBootNotices ==
  isa = "ARM" =>
    /\ Count(log, BootNotice) = 0
    /\ Count(log, InitNotice) = 0
    /\ gen["EXIT"] \in {"start", "L93"}
    /\ gen["EXIT"] = "L93" => outcome = "halted"

\* The EXIT generator is suspended at its first yield, two steps unused.
C18_Witness ==
  /\ isa = "ARM" /\ gen["EXIT"] = "L93" /\ cursor["EXIT"] = 1
  /\ log = <<>> /\ Count(events, "EXIT") = 1

\* ------------------------------------------------------------------- C19
\* C19: the ARM board's processor is in Timing throughout, and WORKBEGIN is
\* registered with on_work_begin; handling WORKBEGIN there emits the first
\* notice, resets the statistics, then fails at the switch: the run ends
\* with the fatal InvalidSwitch, statistics reset once, the processor state
\* unchanged, no budget armed and no step completed.
C19_ArmWorkBeginFails ==
  [][isa = "ARM" =>
       /\ procState = "Timing" /\ procState' = "Timing"
       /\ on_exit_event["WORKBEGIN"] = "on_work_begin"
       /\ Handles("WORKBEGIN") =>
            /\ outcome' = "InvalidSwitch"
            /\ log' = log \o <<"Work begin. Switching to detailed CPU",
                               "stats.reset">>
            /\ statsResets' = 1
            /\ budget' = 0 /\ armCount' = 0
            /\ UNCHANGED <<cursor, decisions, resumes>>
    ]_vars

C19_Witness ==
  /\ isa = "ARM" /\ events = <<"WORKBEGIN">> /\ pending = NoEvent
  /\ outcome = "InvalidSwitch" /\ statsResets = 1
  /\ procState = "Timing" /\ budget = 0

====
